---------------------------- MODULE Spec2Model ----------------------------
(***************************************************************************)
(* A model of cixtor/refactor: bulk literal search-and-replace over files. *)
(*                                                                         *)
(* The repository holds three iterations of the tool, all modelled here    *)
(* and selected by the variable prog:                                      *)
(*   "main"    src/refactor.go:1-243, the channel pipeline                 *)
(*             main -> searchThisFile -> result channel -> modifyThisFile  *)
(*             with the -x flag (flagCommitChanges) and no confirmation;   *)
(*   "Execute" src/refactor.go:245-510, Refactor.Execute:                  *)
(*             GrepDirectory/InspectFile -> PrintMatches ->                *)
(*             ReplaceMatches (confirmation) -> ModifyFileContent;         *)
(*   "Legacy"  src/unnamed/part_001:146-367, the earlier Refactor.Execute  *)
(*             whose InspectFile has neither Lstat nor a pool.             *)
(*                                                                         *)
(* Text is a sequence of one-character strings; LF and CR stand for the    *)
(* bytes \n and \r.                                                        *)
(***************************************************************************)
EXTENDS Integers, Sequences, FiniteSets, TLC

\* ------------------------------------------------------------------ bounds
MaxLen == 3
MaxOld == 2
MaxFiles == 2
MaxCap == 2
MaxExt == 1

\* ------------------------------------------------------------------- text
LF == "LF"
CR == "CR"
Chars == {"a", "b", LF, CR}

RECURSIVE StrUpTo(_)
StrUpTo(n) ==
  IF n = 0 THEN {<<>>}
  ELSE LET S == StrUpTo(n - 1)
       IN S \cup {Append(s, c) : s \in {t \in S : Len(t) = n - 1}, c \in Chars}

Drop(s, k) == SubSeq(s, k + 1, Len(s))
Take(s, k) == SubSeq(s, 1, k)

HasPrefix(s, sub) ==
  /\ Len(sub) <= Len(s)
  /\ Take(s, Len(sub)) = sub

\* strings.Index: the 0-based offset of the first occurrence of sub in s, -1 if none.
RECURSIVE Index(_, _)
Index(s, sub) ==
  IF HasPrefix(s, sub) THEN 0
  ELSE IF s = <<>> THEN -1
  ELSE LET r == Index(Tail(s), sub) IN IF r = -1 THEN -1 ELSE r + 1

\* strings.Contains
Contains(s, sub) == Index(s, sub) >= 0

\* strings.Count / bytes.Count: non-overlapping occurrences; Len(s)+1 for the empty sub.
RECURSIVE Count(_, _)
Count(s, sub) ==
  IF sub = <<>> THEN Len(s) + 1
  ELSE LET i == Index(s, sub)
       IN IF i = -1 THEN 0 ELSE 1 + Count(Drop(s, i + Len(sub)), sub)

\* The loop of strings.Replace once n is known: k replacements still to make;
\* first is TRUE on the first iteration (an empty old matches at the start, then
\* after each character).
RECURSIVE ReplaceLoop(_, _, _, _, _)
ReplaceLoop(s, old, new, k, first) ==
  IF k = 0 THEN s
  ELSE IF old = <<>>
    THEN IF first THEN new \o ReplaceLoop(s, old, new, k - 1, FALSE)
         ELSE <<Head(s)>> \o new \o ReplaceLoop(Tail(s), old, new, k - 1, FALSE)
    ELSE LET i == Index(s, old)
         IN Take(s, i) \o new \o ReplaceLoop(Drop(s, i + Len(old)), old, new, k - 1, FALSE)

\* strings.Replace / bytes.Replace(s, old, new, n); n < 0 means no limit.
Replace(s, old, new, n) ==
  IF old = new \/ n = 0 THEN s
  ELSE LET m == Count(s, old)
       IN IF m = 0 THEN s
          ELSE ReplaceLoop(s, old, new, IF n < 0 \/ m < n THEN m ELSE n, TRUE)

\* bufio.dropCR
DropCR(data) ==
  IF Len(data) > 0 /\ data[Len(data)] = CR THEN Take(data, Len(data) - 1) ELSE data

\* bufio.Scanner with the default split function bufio.ScanLines: the tokens
\* scanner.Scan()/scanner.Text() yield for a file's content.
RECURSIVE ScanLines(_)
ScanLines(data) ==
  IF data = <<>> THEN <<>>
  ELSE LET i == Index(data, <<LF>>)
       IN IF i >= 0 THEN <<DropCR(Take(data, i))>> \o ScanLines(Drop(data, i + 1))
          ELSE <<DropCR(data)>>

\* --------------------------------------------------------------- scanning
RECURSIVE FindingsFrom(_, _, _)
\* searchThisFile's loop over scanner.Scan(): a Finding for each line whose
\* strings.Count(line, query) is positive; row is the number of lines read so far.
FindingsFrom(lines, query, row) ==
  IF lines = <<>> THEN <<>>
  ELSE LET n == Count(Head(lines), query)
           rest == FindingsFrom(Tail(lines), query, row + 1)
       IN IF n > 0
          THEN <<[LineNumber |-> row + 1, Occurrences |-> n, OriginalText |-> Head(lines)]>>
               \o rest
          ELSE rest

\* A scan that counts each matching line once.
Findings_PerLine(content, query) ==
  LET f == FindingsFrom(ScanLines(content), query, 0)
  IN [n \in 1..Len(f) |-> [f[n] EXCEPT !.Occurrences = 1]]

Findings(content, query) == FindingsFrom(ScanLines(content), query, 0)

RECURSIVE TotalOccurrences(_)
\* modifyThisFile: totalOccurrences += item.Occurrences
TotalOccurrences(findings) ==
  IF findings = <<>> THEN 0
  ELSE Head(findings).Occurrences + TotalOccurrences(Tail(findings))

\* InspectFile's test of one line: strings.Contains(content, r.Oldtext)
LineMatches(line, oldtext) == Contains(line, oldtext)

\* The 1-based numbers, above counter, of the lines InspectFile appends a Match for.
MatchingRows(lines, oldtext, counter) ==
  {k \in (counter + 1)..Len(lines) : LineMatches(lines[k], oldtext)}

Min(S) == CHOOSE x \in S : \A y \in S : x <= y

\* inArray
inArray(haystack, needle) == \E k \in 1..Len(haystack) : haystack[k] = needle

\* ------------------------------------------------------------ file system
Paths == {"f1", "f2"}
\* A symbolic link at one path points at the other path.
Target(p) == IF p = "f1" THEN "f2" ELSE "f1"

Missing == [kind |-> "missing", perm |-> "0000", content |-> <<>>]
RegularFile(perm, content) == [kind |-> "file", perm |-> perm, content |-> content]
Symlink == [kind |-> "symlink", perm |-> "0777", content |-> <<>>]

\* os.Lstat: "error" for a path that does not exist, else whether the path itself
\* is a symbolic link (Lstat does not follow it).
Lstat(f, p) ==
  IF f[p].kind = "missing" THEN "error"
  ELSE IF f[p].kind = "symlink" THEN "symlink" ELSE "regular"

\* The file a path names once a symbolic link is followed, "none" when there is
\* none (the path or the link's target does not exist, or the links form a loop).
Resolve(f, p) ==
  IF f[p].kind = "file" THEN p
  ELSE IF f[p].kind = "symlink" /\ f[Target(p)].kind = "file" THEN Target(p)
  ELSE "none"

\* os.Open / ioutil.ReadFile succeed on an existing file the process may read.
CanRead(f, p) == Resolve(f, p) # "none" /\ f[Resolve(f, p)].perm # "0000"
ReadFile(f, p) == f[Resolve(f, p)].content

\* ioutil.WriteFile(name, data, perm): O_WRONLY|O_CREATE|O_TRUNC. An existing file
\* must be writable and keeps its permission bits; a path that does not exist is
\* created with perm (a dangling link creates its target).
WriteTarget(f, p) ==
  IF f[p].kind = "symlink" THEN (IF f[Target(p)].kind = "symlink" THEN "none" ELSE Target(p))
  ELSE p
CanWrite(f, p) ==
  /\ WriteTarget(f, p) # "none"
  /\ f[WriteTarget(f, p)].kind = "file" => f[WriteTarget(f, p)].perm = "0644"
WriteFile(f, p, data, perm) ==
  LET t == WriteTarget(f, p)
  IN IF f[t].kind = "file" THEN [f EXCEPT ![t].content = data]
     ELSE [f EXCEPT ![t] = RegularFile(perm, data)]

\* filepath.Walk("."): the paths that exist, in lexical order (links are not followed).
Walk(f) ==
  (IF f["f1"].kind # "missing" THEN <<"f1">> ELSE <<>>)
  \o (IF f["f2"].kind # "missing" THEN <<"f2">> ELSE <<>>)

\* ------------------------------------------------------------------ stdin
\* fmt.Scanf("%s", &answer) on one typed line: leading blanks are skipped, the
\* token runs to the next blank; an empty or blank line is an error (unexpected
\* newline), as is end of input. EOF stands for a closed standard input.
RECURSIVE SkipSpace(_)
SkipSpace(line) ==
  IF line # <<>> /\ Head(line) = " " THEN SkipSpace(Tail(line)) ELSE line

RECURSIVE Token(_)
Token(line) ==
  IF line = <<>> \/ Head(line) = " " THEN <<>> ELSE <<Head(line)>> \o Token(Tail(line))

EOF == <<"EOF">>
ScanfError(line) == line = EOF \/ SkipSpace(line) = <<>>
ScanfToken(line) == IF ScanfError(line) THEN <<>> ELSE Token(SkipSpace(line))

StdinLines == {<<"y">>, <<"n">>, <<>>, <<"y", " ", "n">>, <<" ", "y">>, <<"Y">>, EOF}

\* ------------------------------------------------------------------ state
VARIABLES
  prog,               \* which iteration of the tool runs
  flagCommitChanges,  \* the -x flag of main
  Oldtext, Newtext,   \* flag.Arg(0), flag.Arg(1)
  args,               \* flag.Args()[2:], the explicit file list
  poolCap,            \* capacity of the pool channel (sem / sema)
  fs, fs0,            \* the file system now, and as it was when the run started
  extLeft, extChanged,\* writes by other processes: how many may still come, paths hit
  mpc,                \* where main / Execute is
  Filelist,           \* the candidate list
  walked,             \* whether the directory tree was walked
  spc,                \* per candidate: where its searchThisFile / InspectFile is
  sfind,              \* searchThisFile: findings;  InspectFile: the lines read
  srow,               \* InspectFile: counter, the number of the last line handled
  sem,                \* slots of the pool in use
  wg,                 \* counter of the WaitGroup of main / GrepDirectory
  rwg,                \* counter of the WaitGroup of ReplaceMatches
  chClosed,           \* close(result) has run
  woken,              \* the wg.Wait() of the closing goroutine has seen the counter at zero
  res,                \* main: the candidate whose SearchResult was last received
  Matches, Uniques,   \* Refactor.Matches, Refactor.Uniques
  rpc,                \* per rewrite task: where modifyThisFile / ModifyFileContent is
  rbuf,               \* per rewrite task: the content it read
  stdinLine,          \* the line typed at the prompt (<<"unread">> before)
  out,                \* what was printed
  opened,             \* candidates whose file a scan opened
  seen,               \* per candidate: the content its scan read
  writes              \* the WriteFile calls that succeeded

cfgVars == <<prog, flagCommitChanges, Oldtext, Newtext, args, poolCap, fs0>>
envVars == <<fs, extLeft, extChanged>>
scanVars == <<spc, sfind, srow, opened, seen>>
aggVars == <<Matches, Uniques>>
modVars == <<rpc, rbuf, writes>>
vars == <<cfgVars, envVars, mpc, Filelist, walked, scanVars, sem, wg, rwg, chClosed, woken,
          res, aggVars, modVars, stdinLine, out>>

Tasks == 1..MaxFiles
Unread == <<"unread">>
NoContent == <<"none">>

\* ------------------------------------------------------------------- Init
RECURSIVE ListsUpTo(_)
ListsUpTo(n) ==
  IF n = 0 THEN {<<>>}
  ELSE LET S == ListsUpTo(n - 1)
       IN S \cup {Append(l, p) : l \in {t \in S : Len(t) = n - 1}, p \in Paths}

\* File lists in lexical order: all tasks of a phase start together, so the order
\* of the list does not matter to the run. Duplicates are kept.
IsSorted(l) == \A k \in 1..(Len(l) - 1) : ~(l[k] = "f2" /\ l[k + 1] = "f1")
FileLists == {l \in ListsUpTo(MaxFiles) : IsSorted(l)}

Idle ==
  /\ mpc = "start"
  /\ Filelist = <<>>
  /\ walked = FALSE
  /\ spc = [i \in Tasks |-> "none"]
  /\ sfind = [i \in Tasks |-> <<>>]
  /\ srow = [i \in Tasks |-> 0]
  /\ sem = 0
  /\ wg = 0
  /\ rwg = 0
  /\ chClosed = FALSE
  /\ woken = FALSE
  /\ res = 0
  /\ Matches = <<>>
  /\ Uniques = <<>>
  /\ rpc = [j \in Tasks |-> "none"]
  /\ rbuf = [j \in Tasks |-> NoContent]
  /\ stdinLine = Unread
  /\ out = {}
  /\ opened = {}
  /\ seen = [i \in Tasks |-> NoContent]
  /\ writes = {}
  /\ extChanged = {}
  /\ fs0 = fs

Progs == {"main", "Execute", "Legacy"}

\* Runs over several candidates: file lists with duplicates, missing, unreadable
\* and read-only files and symbolic links, every pool capacity up to MaxCap.
InitFiles ==
  /\ prog \in Progs
  /\ flagCommitChanges \in (IF prog = "main" THEN BOOLEAN ELSE {FALSE})
  /\ Oldtext = <<"a">>
  /\ Newtext \in {<<"b">>, <<"a", "a">>, <<"a">>}
  /\ args \in FileLists
  /\ poolCap \in 1..MaxCap
  /\ \E e1 \in {RegularFile("0644", <<"a", LF, "a">>), RegularFile("0444", <<"a", LF, "a">>),
                Missing},
        e2 \in {RegularFile("0644", <<"a", "a">>), RegularFile("0644", <<"b">>),
                RegularFile("0000", <<"a", "a">>), Symlink} :
       fs = [p \in Paths |-> IF p = "f1" THEN e1 ELSE e2]
  /\ extLeft = MaxExt
  /\ Idle

\* Runs over one candidate: every content up to MaxLen characters, every old text
\* up to MaxOld characters.
InitText ==
  /\ prog \in {"main", "Execute"}
  /\ flagCommitChanges = (prog = "main")
  /\ Oldtext \in StrUpTo(MaxOld)
  /\ Newtext \in {<<>>, <<"a">>, <<"b">>}
  /\ args = <<"f1">>
  /\ poolCap = 1
  /\ \E c \in StrUpTo(MaxLen) :
       fs = [p \in Paths |-> IF p = "f1" THEN RegularFile("0644", c) ELSE Missing]
  /\ extLeft = 0
  /\ Idle

Init == InitFiles \/ InitText

\* ------------------------------------------------------- shared primitives
\* A run without the check of the two texts.
SameText_Never == FALSE

\* if oldText == newText (main) / if r.Oldtext == r.Newtext (Execute)
SameText == Oldtext = Newtext

\* files := flag.Args()[2:], or the walk when no file is named
ListFiles == IF args = <<>> THEN Walk(fs) ELSE args

Spawned(list, first) == [i \in Tasks |-> IF i <= Len(list) THEN first ELSE "none"]

\* sem <- true / sema <- 1: blocks while the pool is full
Acquire(held) == held + 1
\* <-sem
Release(held) == held - 1

\* ------------------------------------------------------------- the pipeline
\* main: oldText == newText prints "noop (A == B)" and exits.
MainNoop ==
  /\ prog = "main" /\ mpc = "start"
  /\ SameText
  /\ mpc' = "exit"
  /\ out' = out \cup {<<"noop">>}
  /\ UNCHANGED <<cfgVars, envVars, Filelist, walked, scanVars, sem, wg, rwg, chClosed, woken,
                 res, aggVars, modVars, stdinLine>>

\* main: list the candidates, wg.Add(len(files)), start a searchThisFile per
\* candidate and the goroutine that closes the result channel.
MainDispatch ==
  /\ prog = "main" /\ mpc = "start"
  /\ ~SameText
  /\ Filelist' = ListFiles
  /\ walked' = (args = <<>>)
  /\ wg' = Len(ListFiles)
  /\ spc' = Spawned(ListFiles, "acquire")
  /\ mpc' = "recv"
  /\ UNCHANGED <<cfgVars, envVars, sfind, srow, opened, seen, sem, rwg, chClosed, woken, res,
                 aggVars, modVars, stdinLine, out>>

\* searchThisFile / InspectFile (Execute): take a slot of the pool.
ScanAcquire(i) ==
  /\ prog \in {"main", "Execute"}
  /\ spc[i] = "acquire"
  /\ sem < poolCap
  /\ sem' = Acquire(sem)
  /\ spc' = [spc EXCEPT ![i] = "lstat"]
  /\ UNCHANGED <<cfgVars, envVars, mpc, Filelist, walked, sfind, srow, opened, seen, wg,
                 rwg, chClosed, woken, res, aggVars, modVars, stdinLine, out>>

\* searchThisFile: os.Lstat; an error or a symbolic link returns (the deferred
\* calls release the slot and signal the WaitGroup).
SearchLstat(i) ==
  /\ prog = "main"
  /\ spc[i] = "lstat"
  /\ LET st == Lstat(fs, Filelist[i])
     IN IF st = "regular"
        THEN /\ spc' = [spc EXCEPT ![i] = "open"]
             /\ UNCHANGED <<sem, wg, out>>
        ELSE /\ spc' = [spc EXCEPT ![i] = "done"]
             /\ sem' = Release(sem)
             /\ wg' = wg - 1
             /\ out' = IF st = "error" THEN out \cup {<<"os.lstat", i, Filelist[i]>>} ELSE out
  /\ UNCHANGED <<cfgVars, envVars, mpc, Filelist, walked, sfind, srow, opened, seen, rwg,
                 chClosed, woken, res, aggVars, modVars, stdinLine>>

\* searchThisFile: os.Open, then the scan of every line into findings.
SearchScan(i) ==
  /\ prog = "main"
  /\ spc[i] = "open"
  /\ IF CanRead(fs, Filelist[i])
     THEN /\ spc' = [spc EXCEPT ![i] = "send"]
          /\ sfind' = [sfind EXCEPT ![i] = Findings(ReadFile(fs, Filelist[i]), Oldtext)]
          /\ opened' = opened \cup {i}
          /\ seen' = [seen EXCEPT ![i] = ReadFile(fs, Filelist[i])]
          /\ UNCHANGED <<sem, wg, out>>
     ELSE /\ spc' = [spc EXCEPT ![i] = "done"]
          /\ sem' = Release(sem)
          /\ wg' = wg - 1
          /\ out' = out \cup {<<"os.Open", i, Filelist[i]>>}
          /\ UNCHANGED <<sfind, opened, seen>>
  /\ UNCHANGED <<cfgVars, envVars, mpc, Filelist, walked, srow, rwg, chClosed, woken, res,
                 aggVars, modVars, stdinLine>>

\* A main that drops no result.
Dropped_Never(findings) == FALSE

\* if len(res.Findings) == 0 { continue }
Dropped(findings) == Len(findings) = 0

\* result <- SearchResult{...} meets main's receive (the channel is unbuffered).
\* main skips a result without findings and otherwise goes on to start a rewrite.
SearchSend(i) ==
  /\ prog = "main"
  /\ spc[i] = "send"
  /\ mpc = "recv"
  /\ spc' = [spc EXCEPT ![i] = "return"]
  /\ IF Dropped(sfind[i])
     THEN UNCHANGED <<mpc, res>>
     ELSE mpc' = "add" /\ res' = i
  /\ UNCHANGED <<cfgVars, envVars, Filelist, walked, sfind, srow, opened, seen, sem, wg,
                 rwg, chClosed, woken, aggVars, modVars, stdinLine, out>>

\* searchThisFile returns after the send: file.Close, <-sem, wg.Done.
SearchReturn(i) ==
  /\ prog = "main"
  /\ spc[i] = "return"
  /\ spc' = [spc EXCEPT ![i] = "done"]
  /\ sem' = Release(sem)
  /\ wg' = wg - 1
  /\ UNCHANGED <<cfgVars, envVars, mpc, Filelist, walked, sfind, srow, opened, seen, rwg,
                 chClosed, woken, res, aggVars, modVars, stdinLine, out>>

\* main: wg.Add(1); go modifyThisFile(sem, &wg, res, oldText, newText)
MainStartModify ==
  /\ prog = "main" /\ mpc = "add"
  /\ wg' = wg + 1
  /\ rpc' = [rpc EXCEPT ![res] = "acquire"]
  /\ mpc' = "recv"
  /\ UNCHANGED <<cfgVars, envVars, Filelist, walked, scanVars, sem, rwg, chClosed, woken, res,
                 aggVars, rbuf, writes, stdinLine, out>>

\* go func() { wg.Wait(); ... }(): the Wait of the closing goroutine returns at
\* once when it finds the counter at zero, or is released by the wg.Done() that
\* brings the counter to zero.
CloserWake ==
  /\ prog = "main"
  /\ mpc \in {"recv", "add"}
  /\ ~woken
  /\ wg = 0
  /\ woken' = TRUE
  /\ UNCHANGED <<cfgVars, envVars, mpc, Filelist, walked, scanVars, sem, wg, rwg, chClosed,
                 res, aggVars, modVars, stdinLine, out>>

\* go func() { ...; close(result) }(): the Wait has returned.
CloseResult ==
  /\ prog = "main"
  /\ mpc \in {"recv", "add"}
  /\ ~chClosed
  /\ woken
  /\ chClosed' = TRUE
  /\ UNCHANGED <<cfgVars, envVars, mpc, Filelist, walked, scanVars, sem, wg, rwg, woken,
                 res, aggVars, modVars, stdinLine, out>>

\* main's wg.Add(1) ran between the wg.Done() that released the closing goroutine
\* and the check that goroutine's Wait makes of the counter when it resumes: the
\* WaitGroup panics ("WaitGroup is reused before previous Wait has returned", or
\* "Add called concurrently with Wait" inside Add) and the process dies.
WaitGroupPanic ==
  /\ prog = "main"
  /\ mpc = "recv"
  /\ ~chClosed
  /\ woken
  /\ wg # 0
  /\ mpc' = "panic"
  /\ out' = out \cup {<<"panic">>}
  /\ UNCHANGED <<cfgVars, envVars, Filelist, walked, scanVars, sem, wg, rwg, chClosed,
                 woken, res, aggVars, modVars, stdinLine>>

\* main: the range over result ends once the channel is closed.
MainRangeEnd ==
  /\ prog = "main" /\ mpc = "recv"
  /\ chClosed
  /\ mpc' = "wait"
  /\ UNCHANGED <<cfgVars, envVars, Filelist, walked, scanVars, sem, wg, rwg, chClosed, woken,
                 res, aggVars, modVars, stdinLine, out>>

\* A main that returns without the final wg.Wait().
MainWait_NoBarrier ==
  /\ prog = "main" /\ mpc = "wait"
  /\ mpc' = "done"
  /\ UNCHANGED <<cfgVars, envVars, Filelist, walked, scanVars, sem, wg, rwg, chClosed, woken,
                 res, aggVars, modVars, stdinLine, out>>

\* main: the final wg.Wait()
MainWait ==
  /\ prog = "main" /\ mpc = "wait"
  /\ wg = 0
  /\ mpc' = "done"
  /\ UNCHANGED <<cfgVars, envVars, Filelist, walked, scanVars, sem, wg, rwg, chClosed, woken,
                 res, aggVars, modVars, stdinLine, out>>

\* modifyThisFile: take a slot of the pool (every goroutine stops when the process
\* dies of a panic).
ModifyAcquire(j) ==
  /\ prog = "main" /\ mpc # "panic"
  /\ rpc[j] = "acquire"
  /\ sem < poolCap
  /\ sem' = Acquire(sem)
  /\ rpc' = [rpc EXCEPT ![j] = "read"]
  /\ UNCHANGED <<cfgVars, envVars, mpc, Filelist, walked, scanVars, wg, rwg, chClosed, woken,
                 res, aggVars, rbuf, writes, stdinLine, out>>

\* A modifyThisFile without the preview return.
PreviewOnly_Never == FALSE

\* if !flagCommitChanges: modifyThisFile only prints the findings and returns.
PreviewOnly == ~flagCommitChanges

PrintFindings(kind, j) == {<<kind, j, Filelist[j], sfind[j][k].LineNumber>> : k \in 1..Len(sfind[j])}

\* modifyThisFile: the preview and return, or ioutil.ReadFile and the printed diff.
ModifyRead(j) ==
  /\ prog = "main" /\ mpc # "panic"
  /\ rpc[j] = "read"
  /\ IF PreviewOnly
     THEN /\ out' = out \cup PrintFindings("preview", j)
          /\ rpc' = [rpc EXCEPT ![j] = "done"]
          /\ sem' = Release(sem)
          /\ wg' = wg - 1
          /\ UNCHANGED rbuf
     ELSE IF CanRead(fs, Filelist[j])
     THEN /\ rbuf' = [rbuf EXCEPT ![j] = ReadFile(fs, Filelist[j])]
          /\ out' = out \cup PrintFindings("diff", j)
          /\ rpc' = [rpc EXCEPT ![j] = "write"]
          /\ UNCHANGED <<sem, wg>>
     ELSE /\ out' = out \cup {<<"ioutil.ReadFile", j, Filelist[j]>>}
          /\ rpc' = [rpc EXCEPT ![j] = "done"]
          /\ sem' = Release(sem)
          /\ wg' = wg - 1
          /\ UNCHANGED rbuf
  /\ UNCHANGED <<cfgVars, envVars, mpc, Filelist, walked, scanVars, rwg, chClosed, woken, res,
                 aggVars, writes, stdinLine>>

\* A rewrite that replaces the first occurrence only.
Rewritten_Once(content, findings) == Replace(content, Oldtext, Newtext, 1)

\* content = bytes.Replace(content, []byte(oldText), []byte(newText), totalOccurrences)
Rewritten(content, findings) == Replace(content, Oldtext, Newtext, TotalOccurrences(findings))

\* modifyThisFile: the replacement and ioutil.WriteFile(res.Filename, content, 0644).
ModifyWrite(j) ==
  /\ prog = "main" /\ mpc # "panic"
  /\ rpc[j] = "write"
  /\ IF CanWrite(fs, Filelist[j])
     THEN /\ fs' = WriteFile(fs, Filelist[j], Rewritten(rbuf[j], sfind[j]), "0644")
          /\ writes' = writes \cup {[task |-> j, path |-> WriteTarget(fs, Filelist[j]),
                                     data |-> Rewritten(rbuf[j], sfind[j])]}
          /\ UNCHANGED out
     ELSE /\ out' = out \cup {<<"ioutil.WriteFile", j, Filelist[j]>>}
          /\ UNCHANGED <<fs, writes>>
  /\ rpc' = [rpc EXCEPT ![j] = "done"]
  /\ sem' = Release(sem)
  /\ wg' = wg - 1
  /\ UNCHANGED <<cfgVars, extLeft, extChanged, mpc, Filelist, walked, scanVars, rwg,
                 chClosed, woken, res, aggVars, rbuf, stdinLine>>

\* ------------------------------------------------------ Execute and Legacy
InExecute == prog \in {"Execute", "Legacy"}

\* Execute: r.Oldtext == r.Newtext returns the error main prints.
ExecuteSame ==
  /\ InExecute /\ mpc = "start"
  /\ SameText
  /\ mpc' = "exit"
  /\ out' = out \cup {<<"Old and new text are the same">>}
  /\ UNCHANGED <<cfgVars, envVars, Filelist, walked, scanVars, sem, wg, rwg, chClosed, woken,
                 res, aggVars, modVars, stdinLine>>

\* InspectFile of Execute starts at the pool, the one of Legacy at os.Open.
FirstStep == IF prog = "Execute" THEN "acquire" ELSE "open"

\* Execute: FindFiles when no file is named, then GrepDirectory: wg.Add(len) and
\* an InspectFile per candidate.
GrepDirectory ==
  /\ InExecute /\ mpc = "start"
  /\ ~SameText
  /\ Filelist' = ListFiles
  /\ walked' = (args = <<>>)
  /\ wg' = Len(ListFiles)
  /\ spc' = Spawned(ListFiles, FirstStep)
  /\ mpc' = "grep"
  /\ UNCHANGED <<cfgVars, envVars, sfind, srow, opened, seen, sem, rwg, chClosed, woken, res,
                 aggVars, modVars, stdinLine, out>>

\* InspectFile (Execute): os.Lstat. The error path returns with the slot held and
\* without wg.Done(); a symbolic link releases the slot and signals.
InspectLstat(i) ==
  /\ prog = "Execute"
  /\ spc[i] = "lstat"
  /\ LET st == Lstat(fs, Filelist[i])
     IN CASE st = "regular" ->
               /\ spc' = [spc EXCEPT ![i] = "open"]
               /\ UNCHANGED <<sem, wg, out>>
          [] st = "symlink" ->
               /\ spc' = [spc EXCEPT ![i] = "done"]
               /\ sem' = Release(sem)
               /\ wg' = wg - 1
               /\ UNCHANGED out
          [] OTHER ->
               /\ spc' = [spc EXCEPT ![i] = "leaked"]
               /\ out' = out \cup {<<"os.lstat", i, Filelist[i]>>}
               /\ UNCHANGED <<sem, wg>>
  /\ UNCHANGED <<cfgVars, envVars, mpc, Filelist, walked, sfind, srow, opened, seen, rwg,
                 chClosed, woken, res, aggVars, modVars, stdinLine>>

\* InspectFile: os.Open. The error path returns without wg.Done() (and, in
\* Execute, with the slot held); otherwise the scanner is set up on the file.
InspectOpen(i) ==
  /\ InExecute
  /\ spc[i] = "open"
  /\ IF CanRead(fs, Filelist[i])
     THEN /\ spc' = [spc EXCEPT ![i] = "lines"]
          /\ sfind' = [sfind EXCEPT ![i] = ScanLines(ReadFile(fs, Filelist[i]))]
          /\ opened' = opened \cup {i}
          /\ seen' = [seen EXCEPT ![i] = ReadFile(fs, Filelist[i])]
          /\ UNCHANGED out
     ELSE /\ spc' = [spc EXCEPT ![i] = "leaked"]
          /\ out' = out \cup {<<"os.open", i, Filelist[i]>>}
          /\ UNCHANGED <<sfind, opened, seen>>
  /\ UNCHANGED <<cfgVars, envVars, mpc, Filelist, walked, srow, sem, wg, rwg, chClosed, woken,
                 res, aggVars, modVars, stdinLine>>

Match(filename, lines, k) ==
  [Filename |-> filename, LineText |-> lines[k], LineNumber |-> k,
   GrepFormat |-> <<filename, k>>]

\* if !inArray(r.Uniques, filename) { r.Uniques = append(r.Uniques, filename) }
AddUnique(uniques, filename) ==
  IF inArray(uniques, filename) THEN uniques ELSE Append(uniques, filename)

\* InspectFile: read on to the next line that contains r.Oldtext and, under the
\* lock, append its Match and the file name.
InspectLine(i) ==
  /\ InExecute
  /\ spc[i] = "lines"
  /\ MatchingRows(sfind[i], Oldtext, srow[i]) # {}
  /\ LET k == Min(MatchingRows(sfind[i], Oldtext, srow[i]))
     IN /\ Matches' = Append(Matches, Match(Filelist[i], sfind[i], k))
        /\ Uniques' = AddUnique(Uniques, Filelist[i])
        /\ srow' = [srow EXCEPT ![i] = k]
  /\ UNCHANGED <<cfgVars, envVars, mpc, Filelist, walked, spc, sfind, opened, seen, sem,
                 wg, rwg, chClosed, woken, res, modVars, stdinLine, out>>

\* InspectFile: no further line matches; the deferred function runs
\* (<-sema in Execute, wg.Done(), file.Close()).
InspectReturn(i) ==
  /\ InExecute
  /\ spc[i] = "lines"
  /\ MatchingRows(sfind[i], Oldtext, srow[i]) = {}
  /\ spc' = [spc EXCEPT ![i] = "done"]
  /\ sem' = IF prog = "Execute" THEN Release(sem) ELSE sem
  /\ wg' = wg - 1
  /\ UNCHANGED <<cfgVars, envVars, mpc, Filelist, walked, sfind, srow, opened, seen, rwg,
                 chClosed, woken, res, aggVars, modVars, stdinLine, out>>

\* An InspectFile that can take no step: it has returned, or waits for a slot of a
\* full pool.
Asleep(i) ==
  \/ spc[i] \in {"none", "done", "leaked"}
  \/ spc[i] = "acquire" /\ sem >= poolCap

\* GrepDirectory: wg.Wait() with a counter that no goroutine is left to bring to
\* zero. The Go runtime ends the process: "fatal error: all goroutines are
\* asleep - deadlock!".
AllGoroutinesAsleep ==
  /\ InExecute /\ mpc = "grep"
  /\ wg # 0
  /\ \A i \in Tasks : Asleep(i)
  /\ mpc' = "fatal"
  /\ out' = out \cup {<<"fatal error">>}
  /\ UNCHANGED <<cfgVars, envVars, Filelist, walked, scanVars, sem, wg, rwg, chClosed,
                 woken, res, aggVars, modVars, stdinLine>>

PrintMatches == {<<"preview", 0, Matches[k].Filename, Matches[k].LineNumber>> : k \in 1..Len(Matches)}

\* Execute after GrepDirectory's wg.Wait(): "Nothing to refactor", or PrintMatches
\* and the prompt of ReplaceMatches.
GrepDone ==
  /\ InExecute /\ mpc = "grep"
  /\ wg = 0
  /\ IF Len(Matches) = 0
     THEN mpc' = "done" /\ out' = out \cup {<<"Nothing to refactor">>}
     ELSE mpc' = "confirm" /\ out' = out \cup PrintMatches
  /\ UNCHANGED <<cfgVars, envVars, Filelist, walked, scanVars, sem, wg, rwg, chClosed, woken,
                 res, aggVars, modVars, stdinLine>>

\* ReplaceMatches goes on to rewrite when Scanf gave no error and answer == "y".
\* Execute returns on a Scanf error; Legacy ignores it, and answer is then empty.
Confirmed(line) == ScanfToken(line) = <<"y">>

\* ReplaceMatches: read the answer; cancel, or wg.Add(len(r.Uniques)) and a
\* ModifyFileContent per file of r.Uniques.
ReplaceMatches ==
  /\ InExecute /\ mpc = "confirm"
  /\ \E line \in StdinLines :
       /\ stdinLine' = line
       /\ IF prog = "Execute" /\ ScanfError(line)
          THEN /\ mpc' = "done"
               /\ out' = out \cup {<<"fmt.scanf">>}
               /\ UNCHANGED <<rwg, rpc>>
          ELSE IF ~Confirmed(line)
          THEN /\ mpc' = "done"
               /\ out' = out \cup {<<"Canceling Refactoring">>}
               /\ UNCHANGED <<rwg, rpc>>
          ELSE /\ mpc' = "rewrite"
               /\ rwg' = Len(Uniques)
               /\ rpc' = Spawned(Uniques, "read")
               /\ UNCHANGED out
  /\ UNCHANGED <<cfgVars, envVars, Filelist, walked, scanVars, sem, wg, chClosed, woken, res,
                 aggVars, rbuf, writes>>

\* ModifyFileContent: ioutil.ReadFile
ContentRead(j) ==
  /\ InExecute
  /\ rpc[j] = "read"
  /\ IF CanRead(fs, Uniques[j])
     THEN /\ rbuf' = [rbuf EXCEPT ![j] = ReadFile(fs, Uniques[j])]
          /\ rpc' = [rpc EXCEPT ![j] = "write"]
          /\ UNCHANGED <<rwg, out>>
     ELSE /\ out' = out \cup {<<"Error refactoring", j, Uniques[j]>>}
          /\ rpc' = [rpc EXCEPT ![j] = "done"]
          /\ rwg' = rwg - 1
          /\ UNCHANGED rbuf
  /\ UNCHANGED <<cfgVars, envVars, mpc, Filelist, walked, scanVars, sem, wg, chClosed, woken,
                 res, aggVars, writes, stdinLine>>

\* content := strings.Replace(string(read), r.Oldtext, r.Newtext, -1)
ReplacedAll(content) == Replace(content, Oldtext, Newtext, -1)

\* ModifyFileContent: the replacement, ioutil.WriteFile(filename, content, 0), and
\* the OK line, which is printed after a failed write too.
ContentWrite(j) ==
  /\ InExecute
  /\ rpc[j] = "write"
  /\ IF CanWrite(fs, Uniques[j])
     THEN /\ fs' = WriteFile(fs, Uniques[j], ReplacedAll(rbuf[j]), "0000")
          /\ writes' = writes \cup {[task |-> j, path |-> WriteTarget(fs, Uniques[j]),
                                     data |-> ReplacedAll(rbuf[j])]}
          /\ out' = out \cup {<<"OK", j, Uniques[j]>>}
     ELSE /\ out' = out \cup {<<"Error writing", j, Uniques[j]>>, <<"OK", j, Uniques[j]>>}
          /\ UNCHANGED <<fs, writes>>
  /\ rpc' = [rpc EXCEPT ![j] = "done"]
  /\ rwg' = rwg - 1
  /\ UNCHANGED <<cfgVars, extLeft, extChanged, mpc, Filelist, walked, scanVars, sem, wg,
                 chClosed, woken, res, aggVars, rbuf, stdinLine>>

\* ReplaceMatches after its wg.Wait(): "@ Finished"
Finished ==
  /\ InExecute /\ mpc = "rewrite"
  /\ rwg = 0
  /\ mpc' = "done"
  /\ out' = out \cup {<<"Finished">>}
  /\ UNCHANGED <<cfgVars, envVars, Filelist, walked, scanVars, sem, wg, rwg, chClosed, woken,
                 res, aggVars, modVars, stdinLine>>

\* ------------------------------------------------------------ environment
ExtText == <<"a", "a", "a">>

\* Another process overwrites a regular file while the tool runs.
ExternalWrite(p) ==
  /\ extLeft > 0
  /\ mpc \notin {"start", "done", "exit", "panic", "fatal"}
  /\ fs[p].kind = "file"
  /\ fs[p].content # ExtText
  /\ fs' = [fs EXCEPT ![p].content = ExtText]
  /\ extChanged' = extChanged \cup {p}
  /\ extLeft' = extLeft - 1
  /\ UNCHANGED <<cfgVars, mpc, Filelist, walked, scanVars, sem, wg, rwg, chClosed, woken, res,
                 aggVars, modVars, stdinLine, out>>

\* ------------------------------------------------------------------- Next
Program ==
  \/ MainNoop
  \/ MainDispatch
  \/ \E i \in Tasks : ScanAcquire(i)
  \/ \E i \in Tasks : SearchLstat(i)
  \/ \E i \in Tasks : SearchScan(i)
  \/ \E i \in Tasks : SearchSend(i)
  \/ \E i \in Tasks : SearchReturn(i)
  \/ MainStartModify
  \/ CloserWake
  \/ CloseResult
  \/ WaitGroupPanic
  \/ MainRangeEnd
  \/ MainWait
  \/ \E j \in Tasks : ModifyAcquire(j)
  \/ \E j \in Tasks : ModifyRead(j)
  \/ \E j \in Tasks : ModifyWrite(j)
  \/ ExecuteSame
  \/ GrepDirectory
  \/ \E i \in Tasks : InspectLstat(i)
  \/ \E i \in Tasks : InspectOpen(i)
  \/ \E i \in Tasks : InspectLine(i)
  \/ \E i \in Tasks : InspectReturn(i)
  \/ AllGoroutinesAsleep
  \/ GrepDone
  \/ ReplaceMatches
  \/ \E j \in Tasks : ContentRead(j)
  \/ \E j \in Tasks : ContentWrite(j)
  \/ Finished

Environment == \E p \in Paths : ExternalWrite(p)

Next == Program \/ Environment

Spec == Init /\ [][Next]_vars

\* The Go scheduler runs every goroutine that can take a step.
FairSpec == Spec /\ WF_vars(Program)

\* ================================================================= claims
CommitMode == IF prog = "main" THEN flagCommitChanges ELSE TRUE
Candidates == 1..Len(Filelist)
\* The file a rewrite task works on.
RewriteFile(j) == IF prog = "main" THEN Filelist[j] ELSE Uniques[j]
Untouched(p) == p \notin extChanged

NoTerminator(s) == \A k \in 1..Len(s) : s[k] \notin {LF, CR}

RECURSIVE MatchOccurrences(_, _)
\* The occurrences of Oldtext in the lines Matches holds for one file.
MatchOccurrences(matches, filename) ==
  IF matches = <<>> THEN 0
  ELSE (IF Head(matches).Filename = filename THEN Count(Head(matches).LineText, Oldtext) ELSE 0)
       + MatchOccurrences(Tail(matches), filename)

\* What the scan of the file of write w read, and how many occurrences it counted.
ScannedContent(w) == IF prog = "main" THEN seen[w.task] ELSE fs0[w.path].content
ScannedCount(w) ==
  IF prog = "main" THEN TotalOccurrences(sfind[w.task])
  ELSE MatchOccurrences(Matches, Uniques[w.task])

\* C1: in commit mode every file written, unless another process changed it, gets
\* the scanned content with exactly N occurrences of Oldtext replaced by Newtext,
\* N the sum of the counts of the file's findings; a file without findings is
\* not written. (Stated for modifyThisFile, the rewrite of main, and a non-empty
\* Oldtext without line terminators.)
C1_WrittenIsScannedReplaced ==
  (prog = "main" /\ flagCommitChanges /\ Oldtext # <<>> /\ NoTerminator(Oldtext)) =>
    \A w \in writes :
      Untouched(w.path) =>
        /\ ScannedCount(w) > 0
        /\ w.data = Replace(ScannedContent(w), Oldtext, Newtext, ScannedCount(w))

\* C2: in preview-only mode (main without -x) no file is ever written: content and
\* permission bits of every file no other process touched are those of the start.
C2_PreviewNeverWrites ==
  (prog = "main" /\ ~flagCommitChanges) =>
    /\ writes = {}
    /\ \A j \in Tasks : rpc[j] # "write" /\ rbuf[j] = NoContent
    /\ \A p \in Paths : Untouched(p) => fs[p] = fs0[p]

C2_Witness ==
  /\ prog = "main" /\ ~flagCommitChanges /\ mpc = "done"
  /\ \E e \in out : e[1] = "preview"
  /\ \E j \in Tasks : rpc[j] = "done"

\* C3: in commit mode no file is written unless a line was read at the prompt and
\* was the affirmative answer (the claim asks for a line equal to "y"; this asks
\* only that the answer read from it is "y", which the claim implies).
C3_NoWriteWithoutYes ==
  CommitMode => (writes # {} => (stdinLine # Unread /\ ScanfToken(stdinLine) = <<"y">>))

\* C4: a candidate that is a symbolic link is never opened by the scan, yields no
\* finding, never enters the modify set and is never rewritten.
C4_SymlinkNeverOpened ==
  \A i \in Candidates :
    fs0[Filelist[i]].kind = "symlink" =>
      /\ i \notin opened
      /\ sfind[i] = <<>>
      /\ ~inArray(Uniques, Filelist[i])
      /\ \A k \in 1..Len(Matches) : Matches[k].Filename # Filelist[i]
      /\ \A j \in Tasks : rpc[j] # "none" => RewriteFile(j) # Filelist[i]
StatFails(i) == fs0[Filelist[i]].kind = "missing"
OpenFails(i) == fs0[Filelist[i]].kind = "file" /\ fs0[Filelist[i]].perm = "0000"
Scannable(i) == fs0[Filelist[i]].kind = "file" /\ fs0[Filelist[i]].perm # "0000"

\* The scan of candidate i recorded what its file held when it was read.
ScanOutcomeRecorded(i) ==
  /\ i \in opened
  /\ IF prog = "main" THEN sfind[i] = Findings(seen[i], Oldtext)
     ELSE \A k \in MatchingRows(ScanLines(seen[i]), Oldtext, 0) :
            \E m \in 1..Len(Matches) : Matches[m] = Match(Filelist[i], ScanLines(seen[i]), k)

\* C5: a candidate whose stat or open fails yields no finding, is in no preview
\* line and not in the modify set and is never rewritten, and every other
\* candidate is scanned as if the failing one were not in the list: once the run
\* can take no further step, every candidate that can be read has been scanned.
C5_FailedOpenIsolated ==
  \A i \in Candidates :
    /\ (StatFails(i) \/ OpenFails(i)) =>
         /\ i \notin opened
         /\ sfind[i] = <<>>
         /\ ~inArray(Uniques, Filelist[i])
         /\ \A e \in out : e[1] \in {"preview", "diff"} => e[3] # Filelist[i]
         /\ \A j \in Tasks : rpc[j] # "none" => RewriteFile(j) # Filelist[i]
    /\ (Scannable(i) /\ ~ENABLED Program) => ScanOutcomeRecorded(i)

RunCommitted ==
  /\ mpc = "done"
  /\ prog = "main" => flagCommitChanges
  /\ InExecute => <<"Finished">> \in out
Written == {w.path : w \in writes}
\* What the scan of an identical second run would find in file p.
SecondScanFinds(p) ==
  IF prog = "main" THEN Findings(fs[p].content, Oldtext) # <<>>
  ELSE MatchingRows(ScanLines(fs[p].content), Oldtext, 0) # {}
SharedChars(s, t) == {s[k] : k \in 1..Len(s)} \cap {t[k] : k \in 1..Len(t)}

\* C6 as claimed: when Newtext does not contain Oldtext, after a committed run (no
\* other process writing) a second run finds no Oldtext in the files rewritten.
\* (Stated for an Oldtext without line terminators.)
C6_IdempotentIfNotContained ==
  (/\ RunCommitted /\ extChanged = {}
   /\ NoTerminator(Oldtext) /\ ~Contains(Newtext, Oldtext)) =>
    \A p \in Written : ~SecondScanFinds(p)

\* C6 amended: when Oldtext is not empty and has no line terminator, and Newtext is
\* not empty and shares no character with Oldtext, after a committed run (no other
\* process writing) a second run finds no Oldtext in the files rewritten.
C6_IdempotentIfDisjoint ==
  (/\ RunCommitted /\ extChanged = {}
   /\ Oldtext # <<>> /\ NoTerminator(Oldtext)
   /\ Newtext # <<>> /\ SharedChars(Oldtext, Newtext) = {}) =>
    \A p \in Written : ~SecondScanFinds(p)

C6_Witness ==
  /\ RunCommitted /\ extChanged = {}
  /\ Oldtext # <<>> /\ NoTerminator(Oldtext)
  /\ Newtext # <<>> /\ SharedChars(Oldtext, Newtext) = {}
  /\ \E w \in writes : Count(fs0[w.path].content, Oldtext) >= 2 /\ w.data # fs0[w.path].content

FindingsPartitionLines(findings, lines) ==
  /\ \A n \in 1..Len(findings) :
       /\ findings[n].LineNumber \in 1..Len(lines)
       /\ findings[n].OriginalText = lines[findings[n].LineNumber]
       /\ findings[n].Occurrences = Count(lines[findings[n].LineNumber], Oldtext)
       /\ findings[n].Occurrences > 0
       /\ n > 1 => findings[n - 1].LineNumber < findings[n].LineNumber
  /\ \A k \in 1..Len(lines) :
       Count(lines[k], Oldtext) > 0 => \E n \in 1..Len(findings) : findings[n].LineNumber = k

C8_SameTextStopsRun ==
  (Oldtext = Newtext) =>
    /\ ~walked /\ Filelist = <<>>
    /\ \A i \in Tasks : spc[i] = "none" /\ rpc[i] = "none"
    /\ opened = {} /\ writes = {}
    /\ fs = fs0
    /\ mpc \in {"start", "exit"}

C8_Witness ==
  /\ Oldtext = Newtext /\ mpc = "exit"
  /\ out \in {{<<"noop">>}, {<<"Old and new text are the same">>}}
  /\ \E p \in Paths : Contains(fs[p].content, Oldtext)

\* A rewrite task at work on its file: about to read it, or between read and write.
Active(j) == rpc[j] \in {"read", "write"}

\* C9: no two rewrite tasks are at work on the same path at the same time.
C9_OneRewriterPerPath ==
  \A j1, j2 \in Tasks :
    (j1 # j2 /\ Active(j1) /\ Active(j2)) => RewriteFile(j1) # RewriteFile(j2)

Scanning(i) == spc[i] \in {"acquire", "lstat", "open", "lines", "send", "return"}

\* C10: while a scan task is running no preview line has been printed and no
\* rewrite task has read or written a file.
C10_FanInBarrier ==
  (\E i \in Tasks : Scanning(i)) =>
    /\ \A e \in out : e[1] \notin {"preview", "diff"}
    /\ \A j \in Tasks : rpc[j] \notin {"write", "done"}

\* The run has ended: main returned or exited, or the process died.
Terminal == mpc \in {"done", "exit", "panic", "fatal"}

\* Every scan task has signalled completion (wg.Done), or none was ever started.
ScansSignalled == \A i \in Tasks : spc[i] \in {"none", "done"}

\* C11: every run terminates, whatever the outcome of each candidate (stat failure,
\* symbolic link, open failure, scan): every scan task signals completion, the
\* scan barrier is passed and the run ends, if no other process writes meanwhile.
C11_RunTerminates ==
  <>(extChanged # {} \/ (Terminal /\ mpc # "fatal" /\ ScansSignalled))

\* The tasks that are at a file system operation: a scan between its os.Lstat and
\* the end of its reading, a rewrite between its ReadFile and its WriteFile.
ScansInFlight == {i \in Tasks : spc[i] \in {"lstat", "open", "lines"}}
RewritesInFlight == {j \in Tasks : rpc[j] \in {"read", "write"}}

\* C12: the scan and rewrite tasks that are at a file system operation are never
\* more than the capacity of the pool. (Stated for the two programs of
\* src/refactor.go.)
C12_PoolBoundsFileOperations ==
  prog # "Legacy" =>
    Cardinality(ScansInFlight) + Cardinality(RewritesInFlight) <= poolCap

\* Every scan task and every rewrite task that was started has returned.
TasksReturned ==
  /\ mpc # "start"
  /\ \A i \in Tasks : spc[i] \in {"none", "done", "leaked"}
  /\ \A j \in Tasks : rpc[j] \in {"none", "done"}

\* C13: a task releases the slot it took on every path out of it: no slot is
\* released that is not held, and once every task has returned no slot is held.
C13_SlotsReleased ==
  /\ sem >= 0
  /\ TasksReturned => sem = 0

\* The fan-in is complete: main's range over the result channel has ended;
\* GrepDirectory's wg.Wait() has returned.
FanInComplete ==
  IF prog = "main" THEN mpc \in {"wait", "done"} ELSE mpc \in {"confirm", "rewrite", "done"}

\* The lines of candidate i, as its scan read them, that hold Oldtext.
FoundRows(i) ==
  IF i \in opened THEN MatchingRows(ScanLines(seen[i]), Oldtext, 0) ELSE {}
\* The paths with at least one such line, and the entries the aggregate should hold.
PathsFound == {Filelist[i] : i \in {c \in Candidates : FoundRows(c) # {}}}
EntriesFound ==
  UNION {{Match(Filelist[i], ScanLines(seen[i]), k) : k \in FoundRows(i)} : i \in Candidates}

\* The files to modify: r.Uniques, and in main the files a modifyThisFile was
\* started for.
ModifyList ==
  IF prog = "main"
  THEN {<<j, Filelist[j]>> : j \in {t \in Tasks : rpc[t] # "none"}}
  ELSE {<<j, Uniques[j]>> : j \in 1..Len(Uniques)}

\* C14: once the fan-in is complete the aggregate holds exactly one entry for each
\* (file, line) that holds Oldtext among the files scanned, and the list of files
\* to modify holds each path with such an entry exactly once, and no other path.
\* (Stated for the two programs of src/refactor.go.)
C14_AggregateExact ==
  (prog # "Legacy" /\ FanInComplete) =>
    /\ InExecute =>
         /\ \A e \in EntriesFound : Cardinality({m \in 1..Len(Matches) : Matches[m] = e}) = 1
         /\ \A m \in 1..Len(Matches) : Matches[m] \in EntriesFound
    /\ \A p \in Paths :
         Cardinality({e \in ModifyList : e[2] = p}) = (IF p \in PathsFound THEN 1 ELSE 0)

\* C15: the count of the scan is a ceiling on the rewrite: what a rewrite writes is
\* what it read with at most as many occurrences of Oldtext replaced as the scan
\* of the file counted, also when the file has changed since the scan. (Stated for
\* the two programs of src/refactor.go.)
C15_ScanCountIsCeiling ==
  (prog # "Legacy" /\ Oldtext # <<>> /\ NoTerminator(Oldtext)) =>
    \A w \in writes :
      \E n \in 0..ScannedCount(w) : w.data = Replace(rbuf[w.task], Oldtext, Newtext, n)

\* The rewrite tasks the run is to make: in main one per candidate with findings,
\* in Execute one per file of r.Uniques.
ModifySet ==
  IF prog = "main" THEN {i \in Candidates : i \in opened /\ sfind[i] # <<>>}
  ELSE 1..Len(Uniques)
\* Rewriting has begun: main runs with -x, ReplaceMatches got the answer y.
RewritingBegun ==
  IF prog = "main" THEN flagCommitChanges /\ mpc # "start"
  ELSE stdinLine # Unread /\ mpc \in {"rewrite", "done"} /\ Confirmed(stdinLine)
\* The file of rewrite task j can be read and written.
CanRewrite(j) == CanRead(fs0, RewriteFile(j)) /\ CanWrite(fs0, RewriteFile(j))
RewriteFailed ==
  \E e \in out : e[1] \in {"ioutil.ReadFile", "ioutil.WriteFile", "Error refactoring",
                           "Error writing"}

\* C16: when the read or the write of one file of the modify set fails, every other
\* file of the modify set is still rewritten by the time the run has ended.
C16_RewriteFailuresIsolated ==
  (Terminal /\ RewritingBegun /\ RewriteFailed) =>
    \A j \in ModifySet : CanRewrite(j) => \E w \in writes : w.task = j

\* What ModifyFileContent number j has reported for its file.
Outcomes(j) == {e \in out : e[1] \in {"OK", "Error refactoring", "Error writing"} /\ e[2] = j}

\* C17: a rewrite that has ended has reported exactly one outcome for its file, and
\* success only when its write succeeded. (Stated for ModifyFileContent.)
C17_OneTrueOutcome ==
  \A j \in Tasks :
    (InExecute /\ rpc[j] = "done") =>
      /\ Cardinality(Outcomes(j)) = 1
      /\ (\E e \in Outcomes(j) : e[1] = "OK") => \E w \in writes : w.task = j

\* A rewrite task that was started and has not returned.
Rewriting(j) == rpc[j] \in {"acquire", "read", "write"}

\* C18: the run does not finish while a rewrite task is still running: main has
\* not returned, and the finished notice is not printed, before every rewrite
\* task that was started has returned.
C18_FinalBarrier ==
  (mpc = "done" \/ <<"Finished">> \in out) => \A j \in Tasks : ~Rewriting(j)

C18_Witness ==
  /\ mpc = "done"
  /\ prog = "main" \/ <<"Finished">> \in out
  /\ Cardinality({j \in Tasks : rpc[j] = "done"}) = 2
  /\ Cardinality(writes) = 2

\* The scan of candidate i has read its file to the end and found no line that
\* holds Oldtext.
ScannedEmpty(i) ==
  /\ i \in opened
  /\ FoundRows(i) = {}
  /\ spc[i] \in {"send", "return", "done"}
\* The lines printed about a file: preview lines, diff lines, outcomes.
Reported(p) ==
  {e \in out : e[1] \in {"preview", "diff", "OK", "Error refactoring", "Error writing",
                         "ioutil.ReadFile", "ioutil.WriteFile"} /\ e[3] = p}

\* C19: a scanned file without findings is dropped: main starts no rewrite for its
\* result; and when no scan of the path found anything, no line is printed about
\* it, no rewrite task works on it and nothing is written under its name.
C19_EmptyResultsDropped ==
  \A i \in Candidates :
    ScannedEmpty(i) =>
      /\ prog = "main" => rpc[i] = "none" /\ \A e \in out : Len(e) > 1 => e[2] # i
      /\ (\A c \in Candidates : Filelist[c] = Filelist[i] => ScannedEmpty(c)) =>
           /\ Reported(Filelist[i]) = {}
           /\ ~inArray(Uniques, Filelist[i])
           /\ \A j \in Tasks : rpc[j] # "none" => RewriteFile(j) # Filelist[i]
           /\ \A w \in writes : RewriteFile(w.task) # Filelist[i]

C19_Witness ==
  /\ prog = "main" /\ mpc = "done"
  /\ writes # {}
  /\ \E i \in Candidates : ScannedEmpty(i) /\ fs[Filelist[i]] = fs0[Filelist[i]]

\* A searchThisFile that has not yet sent its result or returned without one.
BeforeSend(i) == spc[i] \in {"acquire", "lstat", "open", "send"}

\* C20: in main's pipeline the result channel is closed only after every
\* searchThisFile has finished sending, and it is closed once in every run that
\* starts the scan, although wg.Add(1) for a rewrite and a task's wg.Done() may
\* come in either order: a run that has ended has closed the channel.
C20_ResultClosedOnce ==
  prog = "main" =>
    /\ chClosed => \A i \in Tasks : ~BeforeSend(i)
    /\ (Terminal /\ mpc # "exit") => chClosed

\* C21: main's pipeline is free of deadlock for every pool capacity and every
\* number of candidates: every searchThisFile delivers, every modifyThisFile that
\* was started gets a slot and returns, and main's final wg.Wait() returns.
C21_PipelineCompletes ==
  (prog = "main") =>
    <>(/\ mpc \in {"done", "exit"}
       /\ ScansSignalled
       /\ \A j \in Tasks : ~Rewriting(j))
============================================================================
